---- MODULE Spec2Model ----
(***************************************************************************)
(* Model of the resin-js reactive engine (src/src/resin.ts).               *)
(*                                                                         *)
(* The library is single-threaded: every public call (a read, a write, a   *)
(* dispose, watchEffect, computed, derive, select, the entry and the exit  *)
(* of batch) runs to completion, so each one is one action.  What a call   *)
(* does synchronously below it - notify, the subscriber effects it runs,   *)
(* the writes those effects make, the events emitted - is computed by the  *)
(* recursive operators of the engine section on a record of the closure    *)
(* state, and the action commits the resulting record.                     *)
(*                                                                         *)
(* User-supplied functions are fixed as a small application:               *)
(*   A = resin(0, {validate, transform})     B = resin(0)                  *)
(*   C = computed(() => A.value * 2)                                       *)
(*   K = computed(() => A.value > 0 ? B.value : 0)                         *)
(*   D = derive({from: [A, B], compute: (a, b) => a + b})                  *)
(*   W = () => { A.value; B.value }          (a plain effect)              *)
(*   X = () => { if (B.value === 0) batch(() => { B.value = 1 }) }         *)
(*   U = resin({name: ...}),  select(U, "name"), select(U, "zip")          *)
(*   L = resin([...]), LM = L.rMap(f);  M = resin(new Map(...)),           *)
(*       MG = M.rGet(k);  Y = () => { L.value; M.value }  (a plain effect) *)
(*   R = resin(0, {persist: {key}})                                        *)
(*   T = resin(2, {debugName: 'T', transform: [chk], validate}), where    *)
(*       chk throws for 1 and validate throws for 2                        *)
(*   Z = () => { if (T.value === 0) throw ... }   (a plain effect)         *)
(*   E = resin(0), with handlers h1 = () => {}, hx = () => { throw },      *)
(*       hr = () => { E.value }, and he = ({error}) => { if (error.message  *)
(*       === 'Validation failed') throw ... }                              *)
(***************************************************************************)
EXTENDS Integers, Sequences, FiniteSets, TLC

\* ------------------------------------------------------------------ bounds
MaxVal == 2
MaxDepth == 2
MaxHandlers == 2
MaxSelect == 2
MaxStack == 1

\* ---------------------------------------------------------------- universe
Vals == 0..MaxVal
Undefined == 0 - 1

PlainSigs == {"A", "B"}
ComputedSigs == {"C", "K"}
SelNames == <<"S1", "S2", "S3", "S4">>
SelSigs == {SelNames[i] : i \in 1..MaxSelect}
ViewSigs == {"LM", "MG"}
Sigs == PlainSigs \cup ComputedSigs \cup {"D", "U", "E", "T", "L", "M", "R"} \cup ViewSigs \cup SelSigs
Effects == ComputedSigs \cup {"D", "W", "X", "Z", "Y"} \cup ViewSigs \cup SelSigs
EventTypes == {"init", "change", "dispose", "error"}
Handlers == {"h1", "hx"}
ReadingHandlers == {"hr"}
Paths == {"name", "zip"}

VARIABLES
    value,          \* value[s]: the closure variable `value` of signal s
    disposed,       \* disposed[s]
    error,          \* error[s]: "null", a ResinError or what a handler threw
    subscribers,    \* subscribers[s]: the Set, as its insertion-ordered sequence
    eventHandlers,  \* eventHandlers[s][type]: the Set of handlers, in insertion order
    created,        \* the signals constructed so far
    effectStack,    \* the module-level effectStack
    batchDepth,     \* the module-level batchDepth
    pendingEffects, \* the module-level Set pendingEffects, in insertion order
    microtasks,     \* the microtask queue: the signals whose 'init' emission is queued
    storage,        \* localStorage: the item under the key of R, or NoItem
    view,           \* the object derive() returned: its copied data properties
    selected,       \* what each select() call so far returned: <<path, signal>>
    selPath,        \* selPath[s]: the path the computed of select slot s projects
    notified,       \* history: the signals assigned in the open batch while W subscribed to them
    lastOp,         \* the public call made by the last step: its arguments, what the caller
                    \* saw (res, thrown) and the state it started from (old, oldErr, depth,
                    \* pend, pre)
    log             \* what ran during the last step, in order

vars == <<value, disposed, error, subscribers, eventHandlers, created, effectStack,
          batchDepth, pendingEffects, microtasks, storage, view, selected, selPath, notified,
          lastOp, log>>

\* ----------------------------------------------------------------- helpers
Ev(t, s, k, v, o) == [t |-> t, s |-> s, k |-> k, h |-> "", v |-> v, o |-> o]

HandlerEv(s, k, h, v, o) == [t |-> "handler", s |-> s, k |-> k, h |-> h, v |-> v, o |-> o]

Range(q) == {q[i] : i \in 1..Len(q)}

\* Set.prototype.add on an insertion-ordered set
SetAdd(q, x) == IF x \in Range(q) THEN q ELSE Append(q, x)

\* Set.prototype.delete
SetDelete(q, x) == SelectSeq(q, LAMBDA y : y # x)

RECURSIVE SetAddAll(_, _)
SetAddAll(q, xs) == IF xs = <<>> THEN q ELSE SetAddAll(SetAdd(q, Head(xs)), Tail(xs))

Count(q, P(_)) == Cardinality({i \in 1..Len(q) : P(q[i])})

AddLog(st, e) == [st EXCEPT !.log = Append(@, e)]

\* ------------------------------------------- the application's functions
\* the initial value passed to resin()
InitialValue(s) == IF s = "T" THEN 2 ELSE 0

\* options.debugName ("" when the option is absent)
DebugName(s) == IF s = "T" THEN "T" ELSE ""

\* options.validate of A (README "Validation": value => ({valid: ..., error: ...})) and
\* of T, whose validator accepts whenever it returns
Validate(s, v) == s = "T" \/ v % 3 # 2

HasValidate(s) == s \in {"A", "T"}

\* whether the validator throws instead of returning
ValidateThrows(s, v) == s = "T" /\ v = 2

\* options.transform of A (README "Transform Pipeline": an array of two functions) and
\* of T
Transforms(s) == IF s = "A" THEN <<"inc", "dbl">> ELSE IF s = "T" THEN <<"chk">> ELSE <<>>

ApplyTransform(f, v) == IF f = "inc" THEN v + 1 ELSE IF f = "dbl" THEN v * 2 ELSE v

\* whether a transform function throws instead of returning
TransformThrows(f, v) == f = "chk" /\ v = 1

\* getValueByPath on the object U holds: object number r is {name: r % 2}
GetValueByPath(obj, path) == IF path = "name" THEN obj % 2 ELSE Undefined

\* the object after obj.name = n: the same object with that one property replaced
WithName(obj, n) == (obj - (obj % 2)) + n

\* the store and the serialization hooks of options.persist: no item is null, and the
\* string JSON.stringify makes of v is not v
NoItem == 0 - 2

Serialize(v) == v + 10

Deserialize(x) == x - 10

HasPersist(s) == s = "R"

\* A sequence is modelled by its length and a map by the value under the key k: the
\* function of LM = L.rMap(f) returns a sequence as long as L, that of MG = M.rGet(k)
\* the value under k.
\* The signals a computed's function reads, in order, given the current values
FnReads(c, val) ==
    CASE c = "C" -> <<"A">>
      [] c = "K" -> IF val["A"] > 0 THEN <<"A", "B">> ELSE <<"A">>
      [] c = "D" -> <<"A", "B">>
      [] c = "LM" -> <<"L">>
      [] c = "MG" -> <<"M">>
      [] OTHER -> <<"U">>

\* what the function returns
FnResult(c, val, paths) ==
    CASE c = "C" -> val["A"] * 2
      [] c = "K" -> IF val["A"] > 0 THEN val["B"] ELSE 0
      [] c = "D" -> val["A"] + val["B"]
      [] c = "LM" -> val["L"]
      [] c = "MG" -> val["M"]
      [] OTHER -> GetValueByPath(val["U"], paths[c])

\* whether a handler throws when invoked
HandlerThrows(h) == h = "hx"

\* the payload of an 'error' event: the error of a rejected write, whose message is
\* 'Validation failed', or an exception that was caught
ValidationFailed == 1

CaughtError == 0

\* whether a handler throws when invoked for an 'error' event with that payload
ThrowsOnError(h, payload) == h = "he" /\ payload = ValidationFailed

\* whether a handler can throw: hx always does, hr when the read of the signal does
MayThrow(h) == HandlerThrows(h) \/ h \in ReadingHandlers

\* ------------------------------------------------------------ the engine
\* `get value()`: the state after the read (the value read is st.value[s])
GetValue(st, s) ==
    IF st.thrown # "none" THEN st
    ELSE IF st.disposed[s] THEN [st EXCEPT !.thrown = "DisposedRead"]
    ELSE IF st.effectStack # <<>>
         THEN [st EXCEPT !.subscribers[s] = SetAdd(@, st.effectStack[Len(st.effectStack)])]
         ELSE st

RECURSIVE GetValues(_, _)
GetValues(st, ss) == IF ss = <<>> THEN st ELSE GetValues(GetValue(st, Head(ss)), Tail(ss))

\* transformValue: the fold of options.transform over newValue
RECURSIVE FoldTransforms(_, _)
FoldTransforms(fs, v) ==
    IF fs = <<>> THEN v ELSE FoldTransforms(Tail(fs), ApplyTransform(Head(fs), v))

\* the calls transformValue makes, up to the first that throws
RECURSIVE LogTransforms(_, _, _, _)
LogTransforms(st, s, fs, v) ==
    IF fs = <<>> THEN st
    ELSE IF TransformThrows(Head(fs), v)
         THEN [AddLog(AddLog(st, Ev("transform", s, Head(fs), v, 0)),
                      Ev("throw", s, Head(fs), v, 0)) EXCEPT !.thrown = "TransformBoom"]
    ELSE LogTransforms(AddLog(st, Ev("transform", s, Head(fs), v, 0)), s, Tail(fs),
                       ApplyTransform(Head(fs), v))

TransformValue(s, v) == FoldTransforms(Transforms(s), v)

ValidateTransformed(s, v) == IF HasValidate(s) THEN Validate(s, TransformValue(s, v)) ELSE TRUE

\* validateValue: {valid: true} without a validator, else the validator's verdict
ValidateValue(s, v) == IF HasValidate(s) THEN Validate(s, v) ELSE TRUE

RECURSIVE EmitFromUnguarded(_, _, _, _, _, _)
EmitFromUnguarded(st, s, type, i, v, o) ==
    IF st.thrown # "none" \/ i > Len(st.eventHandlers[s][type]) THEN st
    ELSE LET h == st.eventHandlers[s][type][i]
             called == AddLog(st, HandlerEv(s, type, h, v, o))
         IN EmitFromUnguarded(IF HandlerThrows(h) THEN [called EXCEPT !.thrown = "HandlerBoom"]
                              ELSE called, s, type, i + 1, v, o)

\* handler(event): the body of a handler of signal s
HandlerBody(st, s, type, h, v) ==
    IF HandlerThrows(h) THEN [st EXCEPT !.thrown = "HandlerBoom"]
    ELSE IF type = "error" /\ ThrowsOnError(h, v) THEN [st EXCEPT !.thrown = "HeBoom"]
    ELSE IF h \in ReadingHandlers THEN GetValue(st, s)
    ELSE st

\* emitEvent: every handler of the type, each call guarded; a throwing handler sets
\* error and emits 'error' recursively
RECURSIVE EmitFrom(_, _, _, _, _, _)
EmitFrom(st, s, type, i, v, o) ==
    IF i > Len(st.eventHandlers[s][type]) THEN st
    ELSE LET h == st.eventHandlers[s][type][i]
             called == HandlerBody(AddLog(st, HandlerEv(s, type, h, v, o)), s, type, h, v)
             logged == AddLog(AddLog(called, [HandlerEv(s, type, h, 0, 0) EXCEPT !.t = "caught"]),
                              Ev("emit", s, "error", CaughtError, 0))
             caught == EmitFrom([logged EXCEPT !.thrown = "none", !.error[s] = called.thrown],
                                s, "error", 1, CaughtError, 0)
         IN EmitFrom(IF called.thrown # "none" THEN caught ELSE called, s, type, i + 1, v, o)

EmitEvent(st, s, type, v, o) == EmitFrom(AddLog(st, Ev("emit", s, type, v, o)), s, type, 1, v, o)

\* createResinError(message, resinName, value): the error, tagged with resinName
CreateResinError(resinName) == IF resinName = "" THEN "ResinError" ELSE "ResinError(T)"

RECURSIVE SetValue(_, _, _, _)
RECURSIVE Notify(_, _, _, _)
RECURSIVE RunSubscribers(_, _, _, _)
RECURSIVE EffectBody(_, _, _)
RECURSIVE FlushFrom(_, _, _)

\* batch(fn) after fn has returned or thrown: the finally block
BatchFinally(st, paths) ==
    LET dec == [st EXCEPT !.batchDepth = @ - 1]
    IN IF dec.batchDepth = 0 THEN FlushFrom(dec, 1, paths) ELSE dec

\* batch(() => { s.value = v }) called by an effect: an exception of the finally block
\* replaces the one of fn
BatchWrite(st, s, v, paths) ==
    LET inc == [st EXCEPT !.batchDepth = @ + 1]
        body == SetValue(inc, s, v, paths)
        fin == BatchFinally([body EXCEPT !.thrown = "none"], paths)
    IN IF fin.thrown # "none" THEN fin ELSE [fin EXCEPT !.thrown = body.thrown]

\* the body of an effect function.  W reads A and B; the effect of computed(fn) is
\* computedResin.value = fn(); the effect of derive wraps the same in try/catch.
EffectBody(st, e, paths) ==
    IF st.thrown # "none" THEN st
    ELSE LET ran == AddLog(st, Ev("run", e, "", 0, 0))
             rd == GetValues(ran, FnReads(e, ran.value))
             wr == SetValue(rd, e, FnResult(e, ran.value, paths), paths)
             rb == GetValue(ran, "B")
             rt == GetValue(ran, "T")
         IN CASE e = "W" -> GetValues(ran, <<"A", "B">>)
              [] e = "Y" -> GetValues(ran, <<"L", "M">>)
              [] e = "X" -> IF rb.thrown = "none" /\ rb.value["B"] = 0
                            THEN BatchWrite(rb, "B", 1, paths) ELSE rb
              [] e = "Z" -> IF rt.thrown = "none" /\ rt.value["T"] = 0
                            THEN [AddLog(rt, Ev("throw", "Z", "", 0, 0))
                                     EXCEPT !.thrown = "EffectBoom"]
                            ELSE rt
              [] e = "D" -> [wr EXCEPT !.thrown = "none"]
              [] OTHER -> wr

\* subscribers.forEach(effect => effect()): Set iteration in insertion order over
\* the live set; an exception ends the iteration
RunSubscribers(st, s, i, paths) ==
    IF st.thrown # "none" \/ i > Len(st.subscribers[s]) THEN st
    ELSE RunSubscribers(EffectBody(st, st.subscribers[s][i], paths), s, i + 1, paths)

NotifyDeferEvent(st, s, oldValue, paths) ==
    IF st.disposed[s] THEN st
    ELSE IF st.batchDepth > 0
         THEN [st EXCEPT !.pendingEffects = SetAddAll(@, st.subscribers[s])]
         ELSE LET ran == RunSubscribers(st, s, 1, paths)
              IN IF ran.thrown # "none" THEN ran
                 ELSE EmitEvent(ran, s, "change", ran.value[s], oldValue)

\* the persist block of notify: serialize and setItem inside try; st.fault names the
\* call that fails in this step, if any
Persist(st, s) ==
    IF ~HasPersist(s) THEN st
    ELSE IF st.fault \in {"serialize", "setItem"} THEN AddLog(st, Ev("warn", s, st.fault, 0, 0))
    ELSE [st EXCEPT !.storage = Serialize(st.value[s])]

\* notify(oldValue)
Notify(st, s, oldValue, paths) ==
    IF st.disposed[s] THEN st
    ELSE LET ran == IF st.batchDepth > 0
                    THEN [st EXCEPT !.pendingEffects = SetAddAll(@, st.subscribers[s])]
                    ELSE RunSubscribers(st, s, 1, paths)
         IN IF ran.thrown # "none" THEN ran
            ELSE Persist(EmitEvent(ran, s, "change", ran.value[s], oldValue), s)

TryAssignOldValue(st, s, newValue, paths) ==
    LET tr == LogTransforms(st, s, Transforms(s), newValue)
        transformed == TransformValue(s, newValue)
        va == IF HasValidate(s) THEN AddLog(tr, Ev("validate", s, "", transformed, 0)) ELSE tr
    IN IF ~ValidateValue(s, transformed) THEN EmitEvent(va, s, "error", ValidationFailed, 0)
       ELSE Notify([va EXCEPT !.value[s] = transformed], s, st.value[s], paths)

TryAssignRejectionSetsError(st, s, newValue, paths) ==
    LET tr == LogTransforms(st, s, Transforms(s), newValue)
        transformed == TransformValue(s, newValue)
        called == AddLog(tr, Ev("validate", s, "", newValue, 0))
        va == IF tr.thrown # "none" \/ ~HasValidate(s) THEN tr
              ELSE IF ValidateThrows(s, newValue)
                   THEN [AddLog(called, Ev("throw", s, "validate", newValue, 0))
                            EXCEPT !.thrown = "ValidatorBoom"]
              ELSE called
    IN IF va.thrown # "none" THEN va
       ELSE IF ~ValidateValue(s, newValue)
            THEN EmitEvent([va EXCEPT !.error[s] = "ValidationError"], s, "error",
                           ValidationFailed, 0)
       ELSE Notify([va EXCEPT !.value[s] = newValue], s, transformed, paths)

\* the try block of the setter after the identity check: transformValue,
\* validateValue, the rejection or the assignment and notify(transformed)
TryAssign(st, s, newValue, paths) ==
    LET tr == LogTransforms(st, s, Transforms(s), newValue)
        transformed == TransformValue(s, newValue)
        called == AddLog(tr, Ev("validate", s, "", newValue, 0))
        va == IF tr.thrown # "none" \/ ~HasValidate(s) THEN tr
              ELSE IF ValidateThrows(s, newValue)
                   THEN [AddLog(called, Ev("throw", s, "validate", newValue, 0))
                            EXCEPT !.thrown = "ValidatorBoom"]
              ELSE called
    IN IF va.thrown # "none" THEN va
       ELSE IF ~ValidateValue(s, newValue) THEN EmitEvent(va, s, "error", ValidationFailed, 0)
       ELSE Notify([va EXCEPT !.value[s] = newValue], s, transformed, paths)

CatchRethrows(st, s) == st

\* the catch block of the setter: error = createResinError(...); emitEvent('error')
Catch(st, s) ==
    IF st.thrown = "none" THEN st
    ELSE EmitEvent([AddLog(st, Ev("catch", s, "", 0, 0))
                       EXCEPT !.thrown = "none", !.error[s] = CreateResinError(DebugName(s))],
                   s, "error", CaughtError, 0)

SetValueNoIdentity(st, s, newValue, paths) ==
    IF st.thrown # "none" THEN st
    ELSE IF st.disposed[s] THEN [st EXCEPT !.thrown = "DisposedWrite"]
    ELSE Catch(TryAssign(st, s, newValue, paths), s)

\* `set value(newValue)`
SetValue(st, s, newValue, paths) ==
    IF st.thrown # "none" THEN st
    ELSE IF st.disposed[s] THEN [st EXCEPT !.thrown = "DisposedWrite"]
    ELSE IF st.value[s] = newValue THEN st
    ELSE Catch(TryAssign(st, s, newValue, paths), s)

\* watchEffect: push, run, pop (the pop is skipped when the effect throws)
WatchEffect(st, e, paths) ==
    LET pushed == [st EXCEPT !.effectStack = Append(@, e)]
        ran == EffectBody(pushed, e, paths)
    IN IF ran.thrown # "none" THEN ran
       ELSE [ran EXCEPT !.effectStack = SubSeq(@, 1, Len(@) - 1)]

\* pendingEffects.forEach(effect => effect()); pendingEffects.clear()
FlushFrom(st, i, paths) ==
    IF st.thrown # "none" THEN st
    ELSE IF i > Len(st.pendingEffects) THEN [st EXCEPT !.pendingEffects = <<>>]
    ELSE FlushFrom(EffectBody(st, st.pendingEffects[i], paths), i + 1, paths)

\* dispose() of a signal
DisposeSignal(st, s) ==
    IF st.disposed[s] THEN st
    ELSE LET flagged == [st EXCEPT !.disposed[s] = TRUE]
             emitted == EmitEvent(flagged, s, "dispose", flagged.value[s], 0)
         IN [emitted EXCEPT !.subscribers[s] = <<>>,
                            !.eventHandlers[s] = [t \in EventTypes |-> <<>>]]

\* dispose() of the object derive returned
DisposeDerived(st) ==
    LET base == DisposeSignal(st, "D")
    IN [base EXCEPT !.subscribers["A"] = SetDelete(@, "D"),
                    !.subscribers["B"] = SetDelete(@, "D")]

\* computed(fn): resin(fn()), then watchEffect(() => computedResin.value = fn())
Computed(st, c, paths) ==
    LET seeded == GetValues(st, FnReads(c, st.value))
        made == [seeded EXCEPT !.value[c] = FnResult(c, st.value, paths),
                               !.microtasks = Append(@, c)]
    IN IF seeded.thrown # "none" THEN seeded ELSE WatchEffect(made, c, paths)

\* the entries of select's cache that a call can see: `cache` is a WeakMap made by
\* the call itself, so none
PathCacheAtCall(sel) == {}

\* ------------------------------------------------------- state and steps
Start == [value |-> value, disposed |-> disposed, error |-> error,
          subscribers |-> subscribers, eventHandlers |-> eventHandlers,
          effectStack |-> effectStack, batchDepth |-> batchDepth,
          pendingEffects |-> pendingEffects, microtasks |-> microtasks,
          storage |-> storage, fault |-> "none", log |-> <<>>, thrown |-> "none"]

Commit(st) ==
    /\ value' = st.value
    /\ disposed' = st.disposed
    /\ error' = st.error
    /\ subscribers' = st.subscribers
    /\ eventHandlers' = st.eventHandlers
    /\ effectStack' = st.effectStack
    /\ batchDepth' = st.batchDepth
    /\ pendingEffects' = st.pendingEffects
    /\ microtasks' = st.microtasks
    /\ storage' = st.storage
    /\ log' = st.log

Op(op, sig, k, val, old, res, thrown) ==
    [op |-> op, sig |-> sig, k |-> k, val |-> val, old |-> old, depth |-> batchDepth,
     res |-> res, thrown |-> thrown, pre |-> {},
     oldErr |-> IF sig \in Sigs THEN error[sig] ELSE "null", pend |-> pendingEffects,
     wasDisposed |-> IF sig \in Sigs THEN disposed[sig] ELSE FALSE]

NoHandlers == [t \in EventTypes |-> <<>>]

\* A, B, U, T, L and M were constructed in an earlier unit of work, which registered
\* no handler, and their init emissions have run
Init ==
    /\ value = [s \in Sigs |-> InitialValue(s)]
    /\ disposed = [s \in Sigs |-> FALSE]
    /\ error = [s \in Sigs |-> "null"]
    /\ subscribers = [s \in Sigs |-> <<>>]
    /\ eventHandlers = [s \in Sigs |-> NoHandlers]
    /\ created = {"A", "B", "U", "T", "L", "M"}
    /\ effectStack = <<>>
    /\ batchDepth = 0
    /\ pendingEffects = <<>>
    /\ microtasks = <<>>
    /\ storage = NoItem
    /\ view = [made |-> FALSE, value |-> 0, error |-> "null"]
    /\ selected = <<>>
    /\ selPath = [s \in Sigs |-> "name"]
    /\ notified = {}
    /\ lastOp = Op("init", "", "", 0, 0, 0, "none")
    /\ log = <<>>

\* s.value = v by the application, on any signal it holds but the derive result
Write(s, v) ==
    /\ s \in created \ {"D"}
    /\ LET r == SetValue(Start, s, v, selPath)
       IN /\ Commit(r)
          /\ notified' = IF batchDepth > 0 /\ r.value[s] # value[s]
                                           /\ "W" \in Range(subscribers[s])
                         THEN notified \cup {s} ELSE notified
          /\ lastOp' = Op("write", s, "", v, value[s], 0, r.thrown)
    /\ UNCHANGED <<created, view, selected, selPath>>

\* s.value read by the application, outside any effect of its own
Read(s) ==
    /\ s \in created \ {"D"}
    /\ LET r == GetValue(Start, s)
       IN /\ Commit(r)
          /\ lastOp' = Op("read", s, "", 0, value[s], IF r.thrown = "none" THEN value[s] ELSE 0,
                          r.thrown)
    /\ UNCHANGED <<created, view, selected, selPath, notified>>

\* s.dispose()
Dispose(s) ==
    /\ s \in created \ {"D"}
    /\ LET r == DisposeSignal(Start, s)
       IN /\ Commit(r)
          /\ lastOp' = Op("dispose", s, "", 0, value[s], 0, r.thrown)
    /\ UNCHANGED <<created, view, selected, selPath, notified>>

HandlerCount ==
    LET RECURSIVE Sum(_)
        Sum(ps) == IF ps = {} THEN 0
                   ELSE LET p == CHOOSE q \in ps : TRUE
                        IN Len(eventHandlers[p[1]][p[2]]) + Sum(ps \ {p})
    IN Sum(Sigs \X EventTypes)

\* s.on(type, h).  A handler that can throw is not registered for 'error': there it
\* would make emitEvent recurse without bound.
On(s, type, h) ==
    /\ s \in {"A", "D", "E", "T", "M"} \cap created
    /\ type \in EventTypes
    /\ MayThrow(h) => type # "error"
    /\ h \notin Range(eventHandlers[s][type])
    /\ HandlerCount < MaxHandlers
    /\ eventHandlers' = [eventHandlers EXCEPT ![s][type] = SetAdd(@, h)]
    /\ lastOp' = Op("on", s, type, 0, 0, 0, "none")
    /\ log' = <<>>
    /\ UNCHANGED <<value, disposed, error, subscribers, created, effectStack, batchDepth,
                   pendingEffects, microtasks, storage, view, selected, selPath, notified>>

\* batch(fn) is entered: batchDepth++; fn is the steps up to the matching exit
BatchEnter ==
    /\ batchDepth < MaxDepth
    /\ batchDepth' = batchDepth + 1
    /\ UNCHANGED notified
    /\ lastOp' = Op("batchEnter", "", "", 0, 0, 0, "none")
    /\ log' = <<>>
    /\ UNCHANGED <<value, disposed, error, subscribers, eventHandlers, created, effectStack,
                   pendingEffects, microtasks, storage, view, selected, selPath>>

\* fn has returned or thrown
BatchExit ==
    /\ batchDepth > 0
    /\ LET r == BatchFinally(Start, selPath)
       IN /\ Commit(r)
          /\ lastOp' = [Op("batchExit", "", "", 0, 0, 0, r.thrown) EXCEPT !.pre = notified]
          /\ notified' = IF r.batchDepth = 0 THEN {} ELSE notified
    /\ UNCHANGED <<created, view, selected, selPath>>

\* fn has thrown: the finally block runs and the exception leaves batch, unless the
\* flush throws one of its own
BatchExitThrow ==
    /\ batchDepth > 0
    /\ LET r == BatchFinally(Start, selPath)
       IN /\ Commit(r)
          /\ lastOp' = [Op("batchExit", "", "threw", 0, 0, 0,
                            IF r.thrown # "none" THEN r.thrown ELSE "FnError")
                        EXCEPT !.pre = notified]
          /\ notified' = IF r.batchDepth = 0 THEN {} ELSE notified
    /\ UNCHANGED <<created, view, selected, selPath>>

\* watchEffect(X)
WatchX ==
    /\ Len(effectStack) < MaxStack
    /\ "X" \notin Range(subscribers["B"])
    /\ LET r == WatchEffect(Start, "X", selPath)
       IN /\ Commit(r)
          /\ lastOp' = Op("watch", "X", "", 0, 0, 0, r.thrown)
    /\ UNCHANGED <<created, view, selected, selPath, notified>>

\* watchEffect(Z)
WatchZ ==
    /\ Len(effectStack) < MaxStack
    /\ "Z" \notin Range(subscribers["T"])
    /\ LET r == WatchEffect(Start, "Z", selPath)
       IN /\ Commit(r)
          /\ lastOp' = Op("watch", "Z", "", 0, 0, 0, r.thrown)
    /\ UNCHANGED <<created, view, selected, selPath, notified>>

\* watchEffect(W) / subscribe(W)
Watch ==
    /\ Len(effectStack) < MaxStack
    /\ LET r == WatchEffect(Start, "W", selPath)
       IN /\ Commit(r)
          /\ lastOp' = Op("watch", "W", "", 0, 0, 0, r.thrown)
    /\ UNCHANGED <<created, view, selected, selPath, notified>>

\* C = computed(...) or K = computed(...)
NewComputed(c) ==
    /\ c \in ComputedSigs \ created
    /\ LET r == Computed(Start, c, selPath)
       IN /\ Commit(r)
          /\ created' = IF r.thrown = "none" THEN created \cup {c} ELSE created
          /\ lastOp' = Op("computed", c, "", 0, 0, 0, r.thrown)
    /\ UNCHANGED <<view, selected, selPath, notified>>

\* D = derive({from: [A, B], compute}); the returned object is {...derivedResin, dispose}:
\* the spread reads derivedResin's getters once and copies the results as data properties
NewDerive ==
    /\ "D" \notin created
    /\ LET made == Computed(Start, "D", selPath)
           r == GetValue(made, "D")
       IN /\ Commit(r)
          /\ created' = IF r.thrown = "none" THEN created \cup {"D"} ELSE created
          /\ view' = IF r.thrown = "none"
                     THEN [made |-> TRUE, value |-> r.value["D"], error |-> r.error["D"]]
                     ELSE view
          /\ lastOp' = Op("derive", "D", "", 0, 0, 0, r.thrown)
    /\ UNCHANGED <<selected, selPath, notified>>

\* D.value read through the returned object: a data property
ReadView ==
    /\ view.made
    /\ lastOp' = Op("read", "D", "view", 0, view.value, view.value, "none")
    /\ log' = <<>>
    /\ UNCHANGED <<value, disposed, error, subscribers, eventHandlers, created, effectStack,
                   batchDepth, pendingEffects, microtasks, storage, view, selected, selPath, notified>>

\* D.value = v through the returned object: an assignment to the data property
WriteView(v) ==
    /\ view.made
    /\ view' = [view EXCEPT !.value = v]
    /\ lastOp' = Op("write", "D", "view", v, view.value, 0, "none")
    /\ log' = <<>>
    /\ UNCHANGED <<value, disposed, error, subscribers, eventHandlers, created, effectStack,
                   batchDepth, pendingEffects, microtasks, storage, selected, selPath, notified>>

\* D.dispose() through the returned object
DisposeView ==
    /\ view.made
    /\ LET r == DisposeDerived(Start)
       IN /\ Commit(r)
          /\ lastOp' = Op("dispose", "D", "view", 0, view.value, 0, r.thrown)
    /\ UNCHANGED <<created, view, selected, selPath, notified>>

NewResinEmitsNow(s) ==
    /\ s \in {"E"} \ created
    /\ Commit(EmitEvent(Start, s, "init", value[s], 0))
    /\ created' = created \cup {s}
    /\ lastOp' = Op("resin", s, "", 0, 0, 0, "none")
    /\ UNCHANGED <<view, selected, selPath, notified>>

\* E = resin(0): the constructor queues the microtask that emits 'init'
NewResin(s) ==
    /\ s \in {"E"} \ created
    /\ Commit([Start EXCEPT !.microtasks = Append(@, s)])
    /\ created' = created \cup {s}
    /\ lastOp' = Op("resin", s, "", 0, 0, 0, "none")
    /\ UNCHANGED <<view, selected, selPath, notified>>

\* the synchronous unit of work has ended and the oldest queued microtask runs:
\* emitEvent('init', {value}).  batch(fn) is synchronous, so no unit ends inside it.
Microtask ==
    /\ microtasks # <<>>
    /\ batchDepth = 0
    /\ LET s == Head(microtasks)
           r == EmitEvent([Start EXCEPT !.microtasks = Tail(@)], s, "init", value[s], 0)
       IN /\ Commit(r)
          /\ lastOp' = Op("microtask", s, "", 0, value[s], 0, r.thrown)
    /\ UNCHANGED <<created, view, selected, selPath, notified>>

\* U.value.name = n by the application: a read of U, then an assignment to a property
\* of the object read; the setter of U is not called
AssignInPlace(n) ==
    /\ LET rd == GetValue(Start, "U")
           r == IF rd.thrown # "none" THEN rd ELSE [rd EXCEPT !.value["U"] = WithName(@, n)]
       IN /\ Commit(r)
          /\ lastOp' = Op("assign", "U", "name", n, value["U"], 0, r.thrown)
    /\ UNCHANGED <<created, view, selected, selPath, notified>>

\* the set trap of the Proxy in enhanceArray stores a property only when its key is
\* 'length': a property key is a string or a symbol, so typeof prop === 'number' is
\* never true, and for any other key the trap returns true without storing
ProxySetStores(prop) == prop = "length"

\* the reactive accessors the object resin() returns for an array has: those that
\* `enhanced.rX = ...` stored on the Proxy, which Object.assign then copies
ArrayMethods == {m \in {"rFind", "rFilter", "rMap", "rSort", "rSlice"} : ProxySetStores(m)}

\* for a Map, Object.assign copies the accessors from the plain object `methods`
MapMethods == {"rGet", "rEntries", "rKeys", "rValues"}

\* a native mutating method called on s.value: the getter returns the closure's value,
\* which is the container itself and not the Proxy, so the method runs on the
\* container and no trap, hence no republish, runs
NativeMutate(st, s, content) ==
    LET rd == GetValue(st, s)
    IN IF rd.thrown # "none" THEN rd ELSE [rd EXCEPT !.value[s] = content]

\* L.value.push(x)
Push ==
    /\ value["L"] < MaxVal
    /\ LET r == NativeMutate(Start, "L", value["L"] + 1)
       IN /\ Commit(r)
          /\ lastOp' = Op("push", "L", "", value["L"] + 1, value["L"], 0, r.thrown)
    /\ UNCHANGED <<created, view, selected, selPath, notified>>

\* M.value.set(k, v)
MapSet(v) ==
    /\ LET r == NativeMutate(Start, "M", v)
       IN /\ Commit(r)
          /\ lastOp' = Op("mapSet", "M", "", v, value["M"], 0, r.thrown)
    /\ UNCHANGED <<created, view, selected, selPath, notified>>

\* LM = L.rMap(f): a call of undefined when the accessor is missing
RMap ==
    /\ "LM" \notin created
    /\ LET r == IF "rMap" \in ArrayMethods THEN Computed(Start, "LM", selPath)
                ELSE [Start EXCEPT !.thrown = "TypeError"]
       IN /\ Commit(r)
          /\ created' = IF r.thrown = "none" THEN created \cup {"LM"} ELSE created
          /\ lastOp' = Op("rMap", "L", "", 0, 0, 0, r.thrown)
    /\ UNCHANGED <<view, selected, selPath, notified>>

\* MG = M.rGet(k)
RGet ==
    /\ "MG" \notin created
    /\ LET r == IF "rGet" \in MapMethods THEN Computed(Start, "MG", selPath)
                ELSE [Start EXCEPT !.thrown = "TypeError"]
       IN /\ Commit(r)
          /\ created' = IF r.thrown = "none" THEN created \cup {"MG"} ELSE created
          /\ lastOp' = Op("rGet", "M", "", 0, 0, 0, r.thrown)
    /\ UNCHANGED <<view, selected, selPath, notified>>

\* watchEffect(Y)
WatchY ==
    /\ Len(effectStack) < MaxStack
    /\ "Y" \notin Range(subscribers["L"])
    /\ LET r == WatchEffect(Start, "Y", selPath)
       IN /\ Commit(r)
          /\ lastOp' = Op("watch", "Y", "", 0, 0, 0, r.thrown)
    /\ UNCHANGED <<created, view, selected, selPath, notified>>

\* an earlier session left the serialized value v under the key of R
ExternalStore(v) ==
    /\ "R" \notin created
    /\ storage' = Serialize(v)
    /\ lastOp' = Op("store", "R", "", v, 0, 0, "none")
    /\ log' = <<>>
    /\ UNCHANGED <<value, disposed, error, subscribers, eventHandlers, created, effectStack,
                   batchDepth, pendingEffects, microtasks, view, selected, selPath, notified>>

\* R = resin(0, {persist}): localStorage.getItem outside any try, then deserialize
\* inside try; f names the call that fails, if any
NewPersisted(f) ==
    /\ "R" \notin created
    /\ f \in {"none", "getItem", "deserialize"}
    /\ LET restored == IF storage # NoItem /\ f # "deserialize" THEN Deserialize(storage)
                       ELSE InitialValue("R")
           warned == IF storage # NoItem /\ f = "deserialize"
                     THEN AddLog(Start, Ev("warn", "R", f, 0, 0)) ELSE Start
           r == IF f = "getItem" THEN [Start EXCEPT !.thrown = "StorageError"]
                ELSE [warned EXCEPT !.value["R"] = restored, !.microtasks = Append(@, "R")]
       IN /\ Commit(r)
          /\ created' = IF r.thrown = "none" THEN created \cup {"R"} ELSE created
          /\ lastOp' = Op("persisted", "R", f, 0, 0, 0, r.thrown)
    /\ UNCHANGED <<view, selected, selPath, notified>>

\* R.value = v while serialize or setItem fails (f), or neither
WritePersisted(v, f) ==
    /\ "R" \in created
    /\ f \in {"none", "serialize", "setItem"}
    /\ LET r == SetValue([Start EXCEPT !.fault = f], "R", v, selPath)
       IN /\ Commit(r)
          /\ lastOp' = Op("write", "R", f, v, value["R"], 0, r.thrown)
    /\ UNCHANGED <<created, view, selected, selPath, notified>>

\* select(U, p)
Select(p) ==
    /\ Len(selected) < MaxSelect
    /\ LET hit == {e \in PathCacheAtCall(selected) : e[1] = p}
           slot == SelNames[Len(selected) + 1]
           r == Computed(Start, slot, [selPath EXCEPT ![slot] = p])
       IN IF hit # {}
          THEN /\ selected' = Append(selected, CHOOSE e \in hit : TRUE)
               /\ lastOp' = Op("select", "U", p, 0, 0, 0, "none")
               /\ log' = <<>>
               /\ UNCHANGED <<value, disposed, error, subscribers, eventHandlers, created,
                              effectStack, batchDepth, pendingEffects, microtasks, storage,
                              selPath>>
          ELSE /\ Commit(r)
               /\ created' = IF r.thrown = "none" THEN created \cup {slot} ELSE created
               /\ selPath' = IF r.thrown = "none" THEN [selPath EXCEPT ![slot] = p] ELSE selPath
               /\ selected' = IF r.thrown = "none" THEN Append(selected, <<p, slot>>)
                              ELSE selected
               /\ lastOp' = Op("select", "U", p, 0, 0, 0, r.thrown)
    /\ UNCHANGED <<view, notified>>

\* One signal's write path: A (validator, transforms, handlers), the plain effect W,
\* the computed C over A, batches and disposal
Next ==
    \/ \E v \in Vals : Write("A", v)
    \/ \E s \in {"A", "C"} : Dispose(s)
    \/ \E t \in {"change", "error"}, h \in Handlers : On("A", t, h)
    \/ BatchEnter
    \/ BatchExit
    \/ Watch
    \/ NewComputed("C")

Spec == Init /\ [][Next]_vars

\* Batches: A and B written in and out of batches, with the plain effect W and the
\* computed C as subscribers, and disposal of C
NextBatch ==
    \/ \E s \in {"A", "B"}, v \in Vals : Write(s, v)
    \/ Dispose("C")
    \/ BatchEnter
    \/ BatchExit
    \/ Watch
    \/ NewComputed("C")

SpecBatch == Init /\ [][NextBatch]_vars

\* Computed signals: C and K over A and B, written outside any batch, and disposal of
\* the computed signals
NextComputed ==
    \/ \E s \in {"A", "B"}, v \in Vals : Write(s, v)
    \/ \E s \in ComputedSigs : Dispose(s)
    \/ \E s \in ComputedSigs : Read(s)
    \/ \E c \in ComputedSigs : NewComputed(c)

SpecComputed == Init /\ [][NextComputed]_vars

\* The derivation D over A and B and the object derive returned, used outside any batch
NextDerive ==
    \/ \E s \in {"A", "B"}, v \in Vals : Write(s, v)
    \/ Read("A")
    \/ Dispose("A")
    \/ NewDerive
    \/ ReadView
    \/ \E v \in Vals : WriteView(v)
    \/ DisposeView

SpecDerive == Init /\ [][NextDerive]_vars

\* Disposal of the derivation D, with the plain effect W as the other subscriber of its
\* sources, in and out of batches
NextCleanup ==
    \/ \E s \in {"A", "B"}, v \in Vals : Write(s, v)
    \/ BatchEnter
    \/ BatchExit
    \/ Watch
    \/ NewDerive
    \/ DisposeView

SpecCleanup == Init /\ [][NextCleanup]_vars

\* select over U
NextSelect ==
    \/ \E v \in Vals : Write("U", v)
    \/ \E s \in SelSigs \cup {"U"} : Read(s)
    \/ \E s \in SelSigs \cup {"U"} : Dispose(s)
    \/ BatchEnter
    \/ BatchExit
    \/ \E p \in Paths : Select(p)

SpecSelect == Init /\ [][NextSelect]_vars

\* Flushes: the effect X, which calls batch while it runs, and the plain effect W over
\* B, with batches whose function returns or throws
NextFlush ==
    \/ \E v \in Vals : Write("B", v)
    \/ BatchEnter
    \/ BatchExit
    \/ BatchExitThrow
    \/ Watch
    \/ WatchX

SpecFlush == Init /\ [][NextFlush]_vars

\* Lifecycle events of E: construction, the init microtask, handlers of every type,
\* writes and disposal.  (In the other specifications no init handler is ever
\* registered and the queued init emissions are left pending.)
NextEvents ==
    \/ NewResin("E")
    \/ Microtask
    \/ \E t \in EventTypes, h \in Handlers \cup ReadingHandlers : On("E", t, h)
    \/ \E v \in Vals : Write("E", v)
    \/ Dispose("E")

SpecEvents == Init /\ [][NextEvents]_vars

\* Exceptions on the write path of T: its transform, its validator and its subscriber
\* Z can throw; with error and change handlers, batches and disposal
NextErrors ==
    \/ \E v \in Vals : Write("T", v)
    \/ WatchZ
    \/ \E t \in {"change", "error"} : On("T", t, "h1")
    \/ BatchEnter
    \/ BatchExit
    \/ Dispose("T")

SpecErrors == Init /\ [][NextErrors]_vars

\* select over U while the object U holds is also assigned to in place
NextInPlace ==
    \/ \E v \in Vals : Write("U", v)
    \/ \E n \in {0, 1} : AssignInPlace(n)
    \/ \E s \in SelSigs : Read(s)
    \/ \E p \in Paths : Select(p)

SpecInPlace == Init /\ [][NextInPlace]_vars

\* The containers: the sequence L and the map M, their views, the plain effect Y and
\* a change handler of M
NextContainers ==
    \/ \E s \in {"L", "M"}, v \in Vals : Write(s, v)
    \/ Push
    \/ \E v \in Vals : MapSet(v)
    \/ RMap
    \/ RGet
    \/ WatchY
    \/ On("M", "change", "h1")
    \/ \E s \in {"L", "M", "MG"} : Read(s)

SpecContainers == Init /\ [][NextContainers]_vars

\* Persistence: R restored from and written to a store whose calls can fail
NextPersist ==
    \/ \E v \in Vals : ExternalStore(v)
    \/ \E f \in {"none", "getItem", "deserialize"} : NewPersisted(f)
    \/ \E v \in Vals, f \in {"none", "serialize", "setItem"} : WritePersisted(v, f)
    \/ Read("R")
    \/ Dispose("R")

SpecPersist == Init /\ [][NextPersist]_vars

\* Disposal of the derivation D next to the effect X, which calls batch(), and the
\* computed C, whose recompute throws at a flush once C is disposed; A is written 1
\* and B is written 0, the value at which X writes it back to 1
NextStale ==
    \/ Write("A", 1)
    \/ Write("B", 0)
    \/ BatchEnter
    \/ BatchExit
    \/ WatchX
    \/ NewDerive
    \/ DisposeView
    \/ NewComputed("C")
    \/ Dispose("C")

SpecStale == Init /\ [][NextStale]_vars

\* The error field of A: its validator rejects, its change handler hx throws, its
\* error handler he throws for a rejection, and its subscriber C throws once disposed
NextSticky ==
    \/ \E v \in Vals : Write("A", v)
    \/ \E t \in {"change", "error"}, h \in {"h1", "hx", "he"} : On("A", t, h)
    \/ NewComputed("C")
    \/ Dispose("C")

SpecSticky == Init /\ [][NextSticky]_vars

\* ------------------------------------------------------------- the claims
Runs(e) == Count(log, LAMBDA x : x.t = "run" /\ x.s = e)

Emits(s, type) == Count(log, LAMBDA x : x.t = "emit" /\ x.s = s /\ x.k = type)

Calls(s, type, h) == Count(log, LAMBDA x : x.t = "handler" /\ x.s = s /\ x.k = type /\ x.h = h)

Caught(s, type, h) == Count(log, LAMBDA x : x.t = "caught" /\ x.s = s /\ x.k = type /\ x.h = h)

CallsIn(lg, s, type, h) ==
    Count(lg, LAMBDA x : x.t = "handler" /\ x.s = s /\ x.k = type /\ x.h = h)

CaughtIn(lg, s, type) == Count(lg, LAMBDA x : x.t = "caught" /\ x.s = s /\ x.k = type)

Threw == \E i \in 1..Len(log) : log[i].t = "throw"

AnyRun == \E i \in 1..Len(log) : log[i].t = "run"

\* a write through a signal's own setter (not through the object derive returned)
SetterCall == lastOp.op = "write" /\ lastOp.k # "view"

\* C1 - Identity no-op: a write of the value a non-disposed signal already holds runs
\* no subscriber effect, no transform and no validator, emits no event, adds nothing
\* to the pending set and leaves the stored value and the error as they were.
C1_IdentityNoOp ==
    (SetterCall /\ ~disposed[lastOp.sig] /\ lastOp.val = lastOp.old)
        => /\ log = <<>>
           /\ lastOp.thrown = "none"
           /\ value[lastOp.sig] = lastOp.old
           /\ error[lastOp.sig] = lastOp.oldErr
           /\ pendingEffects = lastOp.pend

\* an identical write to A while it has a subscriber and a handler, in an open batch
C1_Witness ==
    /\ SetterCall /\ lastOp.sig = "A" /\ ~disposed["A"] /\ lastOp.val = lastOp.old
    /\ lastOp.val = 1
    /\ lastOp.depth > 0
    /\ subscribers["A"] # <<>>
    /\ eventHandlers["A"]["change"] # <<>>

\* C3 - Change event is batch-independent: a write that assigns a new value while a
\* batch is open invokes every change handler of the signal within the write, with
\* the batch still open, and runs no effect: the subscribers are only queued.
C3_ChangeEventInBatch ==
    (SetterCall /\ lastOp.depth > 0 /\ value[lastOp.sig] # lastOp.old)
        => /\ \A h \in Range(eventHandlers[lastOp.sig]["change"]) :
                  Calls(lastOp.sig, "change", h) = 1
           /\ Emits(lastOp.sig, "change") = 1
           /\ ~AnyRun
           /\ batchDepth = lastOp.depth
           /\ Range(subscribers[lastOp.sig]) \subseteq Range(pendingEffects)

\* a new value assigned to A in a nested batch, A having two subscribers and two change
\* handlers, the first of which throws
C3_Witness ==
    /\ SetterCall /\ lastOp.sig = "A" /\ lastOp.depth > 1 /\ value["A"] # lastOp.old
    /\ eventHandlers["A"]["change"] = <<"hx", "h1">>
    /\ Len(subscribers["A"]) >= 2
    /\ Calls("A", "change", "h1") = 1

\* the validator of the signal written rejects the value written
Rejected ==
    /\ SetterCall /\ ~disposed[lastOp.sig] /\ lastOp.val # lastOp.old
    /\ HasValidate(lastOp.sig) /\ ~Validate(lastOp.sig, lastOp.val)

\* C5 - Validation rejection: a write the validator rejects leaves the stored value
\* unchanged, runs and queues no effect, emits no change event and exactly one error
\* event, and throws nothing (error handlers do not throw in this model).
C5_ValidationRejection ==
    Rejected
        => /\ value[lastOp.sig] = lastOp.old
           /\ ~AnyRun
           /\ pendingEffects = lastOp.pend
           /\ Emits(lastOp.sig, "change") = 0
           /\ Emits(lastOp.sig, "error") = 1
           /\ \A h \in Range(eventHandlers[lastOp.sig]["error"]) :
                  Calls(lastOp.sig, "error", h) = 1
           /\ lastOp.thrown = "none"

\* a rejected write to A while A has subscribers and an error handler that is called
C5_Witness ==
    /\ Rejected /\ lastOp.sig = "A"
    /\ subscribers["A"] # <<>>
    /\ eventHandlers["A"]["error"] # <<>>
    /\ Calls("A", "error", "h1") = 1

\* C2 - Batching dedup: W subscribes to A and B; when both are assigned new values in
\* one batch, W is not run by the writes and is run exactly once at the exit of the
\* outermost batch.
C2_BatchingDedup ==
    /\ (SetterCall /\ lastOp.depth > 0) => Runs("W") = 0
    /\ (lastOp.op = "batchExit" /\ batchDepth = 0 /\ {"A", "B"} \subseteq lastOp.pre)
           => Runs("W") = 1

\* C4 - Disposal terminality: a read or a write of a signal disposed before the call
\* throws the disposed-access error, and a dispose() of it emits no dispose event.
C4_DisposalTerminality ==
    /\ (lastOp.op \in {"read", "write"} /\ lastOp.wasDisposed)
           => lastOp.thrown \in {"DisposedRead", "DisposedWrite"}
    /\ (lastOp.op = "dispose" /\ lastOp.wasDisposed) => Emits(lastOp.sig, "dispose") = 0

\* C6 - Dependency auto-tracking: every write outside a batch that changes A re-runs
\* the function of the live computed C and reassigns C, and no write to B runs it.
C6_AutoTracking ==
    /\ (SetterCall /\ lastOp.sig = "A" /\ lastOp.depth = 0 /\ value["A"] # lastOp.old
            /\ "C" \in created /\ ~disposed["C"])
           => (Runs("C") >= 1 /\ value["C"] = FnResult("C", value, selPath))
    /\ (SetterCall /\ lastOp.sig = "B") => Runs("C") = 0

\* C7 - Dynamic dependencies: after a write has re-run the recompute effect of the live
\* computed K, that effect is a subscriber of every signal the run read.
C7_DynamicDependencies ==
    (SetterCall /\ lastOp.sig \in {"A", "B"} /\ lastOp.depth = 0 /\ Runs("K") >= 1
         /\ ~disposed["K"])
        => \A s \in Range(FnReads("K", value)) : "K" \in Range(subscribers[s])

\* C8 - Derivation tracks its sources: after a write outside a batch that changes a
\* source, the value of the live signal derive returned is compute of the sources.
C8_DeriveTracksSources ==
    (SetterCall /\ lastOp.sig \in {"A", "B"} /\ lastOp.depth = 0
         /\ value[lastOp.sig] # lastOp.old /\ view.made /\ ~disposed["D"])
        => view.value = FnResult("D", value, selPath)

\* C9 - Derivation cleanup: once the derivation is disposed its effect is in the
\* subscriber set of neither source, and no write to a source runs its recompute.
C9_DerivationCleanup ==
    /\ (view.made /\ disposed["D"])
           => \A s \in {"A", "B"} : "D" \notin Range(subscribers[s])
    /\ (SetterCall /\ lastOp.sig \in {"A", "B"} /\ disposed["D"]) => Runs("D") = 0

\* C10 - Path selector memoization: two select calls with the same path return the same
\* computed signal.
C10_SelectMemoized ==
    \A i, j \in 1..Len(selected) :
        selected[i][1] = selected[j][1] => selected[i][2] = selected[j][2]

\* C11 - Batch flush under nesting and failure: the exit of an inner batch runs no
\* effect, and the exit of the outermost batch, whether its function returned or threw,
\* invokes every effect that was in the pending set exactly once - also when one of
\* them calls batch while it runs.
C11_BatchFlush ==
    /\ (lastOp.op = "batchExit" /\ lastOp.depth > 1) => ~AnyRun
    /\ (lastOp.op = "batchExit" /\ lastOp.depth = 1)
           => \A e \in Range(lastOp.pend) : Runs(e) = 1

\* C12 - Dispose ordering: the first dispose() emits the dispose event exactly once
\* and before the terminal flag is set, so that the dispose handler hr, which reads the
\* signal's value, does not fail; afterwards the subscribers and handlers are cleared.
C12_DisposeOrdering ==
    (lastOp.op = "dispose" /\ lastOp.k # "view" /\ ~lastOp.wasDisposed)
        => /\ Emits(lastOp.sig, "dispose") = 1
           /\ \A h \in ReadingHandlers : Caught(lastOp.sig, "dispose", h) = 0
           /\ subscribers[lastOp.sig] = <<>>
           /\ eventHandlers[lastOp.sig] = NoHandlers

\* C13 - Write never throws except for disposal: a write to the non-disposed T outside
\* a batch throws nothing; when its transform, its validator or a subscriber run by
\* notify threw, the signal's error is the ResinError tagged with the debug name, one
\* error event is emitted, every error handler is called once and no change event is
\* emitted.
C13_WriteNeverThrows ==
    (SetterCall /\ lastOp.sig = "T" /\ ~lastOp.wasDisposed /\ lastOp.depth = 0)
        => /\ lastOp.thrown = "none"
           /\ Threw => /\ error["T"] = "ResinError(T)"
                       /\ Emits("T", "error") = 1
                       /\ Emits("T", "change") = 0
                       /\ \A h \in Range(eventHandlers["T"]["error"]) :
                              Calls("T", "error", h) = 1

\* a write of 0 to T outside a batch makes the subscriber Z throw during notify, and
\* the error handler is called
C13_Witness ==
    /\ SetterCall /\ lastOp.sig = "T" /\ ~lastOp.wasDisposed /\ lastOp.depth = 0
    /\ lastOp.val = 0 /\ value["T"] = 0
    /\ \E i \in 1..Len(log) : log[i].t = "throw" /\ log[i].s = "Z"
    /\ Calls("T", "error", "h1") = 1

C20_GuardedHandlers ==
    [][\A type \in {"change", "init", "dispose"} :
          CallsIn(log', "E", type, "hx") > 0
              => /\ lastOp'.thrown = "none"
                 /\ Count(log', LAMBDA x : x.t = "caught" /\ x.s = "E" /\ x.k = type
                                              /\ x.h = "hx") = 1
                 /\ \A h \in Range(eventHandlers["E"][type]) : CallsIn(log', "E", type, h) = 1
                 /\ LET last == CHOOSE i \in 1..Len(log') :
                                    /\ log'[i].t = "caught"
                                    /\ \A j \in (i + 1)..Len(log') : log'[j].t # "caught"
                    IN error'["E"] = IF HandlerThrows(log'[last].h) THEN "HandlerBoom"
                                     ELSE "DisposedRead"
                 /\ \A h \in Range(eventHandlers["E"]["error"]) :
                        CallsIn(log', "E", "error", h) = CaughtIn(log', "E", type)]_vars

\* dispose() of E, whose dispose handler throws: the error is set and the error
\* handler is invoked with it
C20_Witness ==
    /\ lastOp.op = "dispose" /\ lastOp.sig = "E" /\ ~lastOp.wasDisposed
    /\ lastOp.thrown = "none"
    /\ \E i, k \in 1..Len(log) :
           /\ i < k
           /\ log[i] = HandlerEv("E", "dispose", "hx", lastOp.old, 0)
           /\ log[k] = HandlerEv("E", "error", "h1", 0, 0)
    /\ error["E"] = "HandlerBoom"

\* C19 - Init event: every queued init emission belongs to a constructed signal and is
\* queued once; no step but the microtask emits init; the microtask emits it exactly
\* once, removes it from the queue and invokes once every init handler registered on
\* the signal at that moment.
C19_InitEvent ==
    /\ \A i, j \in 1..Len(microtasks) : microtasks[i] = microtasks[j] => i = j
    /\ Range(microtasks) \subseteq created
    /\ lastOp.op # "microtask" => \A s \in Sigs : Emits(s, "init") = 0
    /\ lastOp.op = "microtask"
           => /\ Emits(lastOp.sig, "init") = 1
              /\ lastOp.sig \notin Range(microtasks)
              /\ lastOp.thrown = "none"
              /\ \A h \in Range(eventHandlers[lastOp.sig]["init"]) :
                     Calls(lastOp.sig, "init", h) = 1

\* the init microtask of E runs with two init handlers registered after construction,
\* the first of which throws
C19_Witness ==
    /\ lastOp.op = "microtask" /\ lastOp.sig = "E" /\ ~disposed["E"]
    /\ eventHandlers["E"]["init"] = <<"hx", "h1">>
    /\ Calls("E", "init", "h1") = 1 /\ Calls("E", "init", "hx") = 1

\* C19 as stated: an init handler registered while the init emission of its signal is
\* still queued stays registered until that emission, which invokes it.
C19_RegisteredHandlersObserveInit ==
    [][\A s \in Range(microtasks) : \A h \in Range(eventHandlers[s]["init"]) :
          \/ s \in Range(microtasks') /\ h \in Range(eventHandlers'[s]["init"])
          \/ lastOp'.op = "microtask" /\ lastOp'.sig = s /\ CallsIn(log', s, "init", h) = 1]_vars

\* C15 - Select follows in-place nested updates: after U.value.name = n, with no write
\* to U, the value of every live signal select(U, "name") returned is n.
C15_SelectFollowsInPlace ==
    (lastOp.op = "assign" /\ lastOp.thrown = "none")
        => \A i \in 1..Len(selected) :
               (selected[i][1] = "name" /\ ~disposed[selected[i][2]])
                   => value[selected[i][2]] = lastOp.val

\* C16 - Enhanced sequence republish: L.rMap(f) returns a view, and L.value.push(x)
\* writes the longer sequence through the setter: every subscriber of L runs, a change
\* event is emitted and the value of the live view has the new length.
C16_SequenceRepublish ==
    /\ lastOp.op = "rMap" => (lastOp.thrown = "none" /\ "LM" \in created)
    /\ (lastOp.op = "push" /\ lastOp.thrown = "none")
           => /\ \A e \in Range(subscribers["L"]) : Runs(e) = 1
              /\ Emits("L", "change") = 1
              /\ ("LM" \in created /\ ~disposed["LM"]) => value["LM"] = lastOp.val

\* C17 - Enhanced map republish: M.value.set(k, v) is followed by a write of a copy of
\* the map through the setter: every subscriber of M runs, a change event is emitted
\* and the live view M.rGet(k) returned holds v.
C17_MapRepublish ==
    (lastOp.op = "mapSet" /\ lastOp.thrown = "none")
        => /\ \A e \in Range(subscribers["M"]) : Runs(e) = 1
           /\ Emits("M", "change") = 1
           /\ ("MG" \in created /\ ~disposed["MG"]) => value["MG"] = lastOp.val

\* C18 - Persistence failures are swallowed: resin(0, {persist}) returns a signal
\* whatever fails, holding the initial value when getItem or deserialize failed; and a
\* write of a new value to the live R assigns it and throws nothing whatever fails.
C18_PersistenceSwallowed ==
    /\ lastOp.op = "persisted"
           => /\ lastOp.thrown = "none"
              /\ "R" \in created
              /\ lastOp.k \in {"getItem", "deserialize"} => value["R"] = InitialValue("R")
    /\ (SetterCall /\ lastOp.sig = "R" /\ ~lastOp.wasDisposed /\ lastOp.val # lastOp.old)
           => (lastOp.thrown = "none" /\ value["R"] = lastOp.val)

\* the signals the functions of the plain effects read
EffectReads(e) == IF e = "W" THEN {"A", "B"} ELSE IF e = "X" THEN {"B"} ELSE {}

\* C21 - Innermost effect is the subscription target: a read made by an effect adds
\* that effect to the subscriber set, also when the effect is re-run by notify or by a
\* flush inside another effect's watchEffect call; so X, whose function reads only B,
\* is never a subscriber of A, and W is a subscriber only of what it reads.
C21_InnermostIsTarget ==
    \A s \in {"A", "B"} : \A e \in Range(subscribers[s]) \cap {"W", "X"} : s \in EffectReads(e)

\* C22 - Effect stack discipline: between calls, when no watchEffect is in progress,
\* the effect stack is empty - also after a watchEffect whose function threw.
C22_EffectStackEmptyAtIdle == effectStack = <<>>

\* C23 - Notify completeness: a write outside a batch that assigns a new value to a
\* non-disposed signal invokes every effect in its subscriber set and emits exactly one
\* change event before it returns, whatever the effects do.
C23_NotifyCompleteness ==
    (SetterCall /\ lastOp.depth = 0 /\ ~lastOp.wasDisposed /\ value[lastOp.sig] # lastOp.old)
        => /\ \A e \in Range(subscribers[lastOp.sig]) : Runs(e) >= 1
           /\ Emits(lastOp.sig, "change") = 1

\* C24 - Pending set is empty at idle: between calls, whenever no batch is open, the
\* pending set is empty - also after a batch during whose flush an effect threw.
C24_PendingEmptyAtIdle == batchDepth = 0 => pendingEffects = <<>>

\* C25 - No event after disposal: no step invokes an event handler of a signal that
\* was disposed before the step - whatever is registered with on() after the disposal,
\* and also when the init emission was still queued at the disposal.
C25_NoEventAfterDisposal ==
    [][\A i \in 1..Len(log') : log'[i].t = "handler" => ~disposed[log'[i].s]]_vars

\* C26 - Quiescent consistency of computed signals: between calls, whenever no batch is
\* open, the value of the live computed C, whose function reads A on every run and
\* never throws, is its function of the current value of A.
C26_QuiescentConsistency ==
    (batchDepth = 0 /\ "C" \in created /\ ~disposed["C"])
        => value["C"] = FnResult("C", value, selPath)

\* C27 - Disposed derivation stays silent across a batch: no step taken after the
\* derivation was disposed runs its recompute effect - not even the flush of the batch
\* that was open at the disposal and in which a source had been written.
C27_DisposedDerivationSilent ==
    [][disposed["D"] => Count(log', LAMBDA x : x.t = "run" /\ x.s = "D") = 0]_vars

\* C28 - The error field is sticky: the error of a signal changes only in a step in
\* which an exception was caught for that signal (by the setter's catch block or around
\* an event handler) and it is never null again once set; so a write rejected by
\* validation leaves it as it was unless an error handler threw while it was told of
\* the rejection.
C28_ErrorSticky ==
    [][\A s \in Sigs :
          /\ error[s] # "null" => error'[s] # "null"
          /\ error'[s] # error[s]
                 => \E i \in 1..Len(log') : log'[i].s = s /\ log'[i].t \in {"catch", "caught"}
          /\ (Rejected' /\ lastOp'.sig = s /\ CaughtIn(log', s, "error") = 0)
                 => error'[s] = error[s]]_vars

\* with the error of A set by an earlier step, a write assigns A a new value, nothing is
\* caught, the change event is emitted and the error is still what it was
C28_Witness ==
    /\ SetterCall /\ lastOp.sig = "A" /\ value["A"] # lastOp.old
    /\ lastOp.oldErr # "null" /\ error["A"] = lastOp.oldErr
    /\ Emits("A", "change") = 1
    /\ \A i \in 1..Len(log) : log[i].t \notin {"catch", "caught"}

\* C28 as stated: a write rejected by validation never changes the error.
C28_RejectionKeepsError ==
    [][Rejected' => error'[lastOp'.sig] = error[lastOp'.sig]]_vars
====
